---------------------------- MODULE Spec2Model ----------------------------
(***************************************************************************)
(* A model of the Small-Caps-Low-PE-Ratio strategy's framework callbacks:  *)
(*   - CustomEqualWeightingPortfolioConstructionModel                      *)
(*       (src/Portfolio/CustomEqualWeightingPortfolioConstruction.py)      *)
(*   - SmallCapsLowPERatioUniverseSelectionModel                           *)
(*       (src/Universe/SmallCapsLowPERatioUniverseSelection.py)            *)
(* The host engine (LEAN) owns the clock, the holdings, the insight        *)
(* collection's storage and the order in which it enumerates insights; the *)
(* model treats those as the environment.                                  *)
(***************************************************************************)
EXTENDS Integers, Sequences, FiniteSets, TLC

(***************************************************************************)
(* Bounds of the model.                                                    *)
(***************************************************************************)
\* the clock of the portfolio model runs over 1..MaxTime (days)
MaxTime == 2
\* at most MaxInsights insights are held by the insight collection at once
MaxInsights == 2

Symbols == {"A", "B"}

\* InsightDirection: the host's enum values
Up == 1
Flat == 0
Down == -1
Directions == {Up, Flat, Down}

\* insight periods (CloseTimeUtc - GeneratedTimeUtc) handed in by the alpha model
Periods == {0, 1}

\* values of the constructor's rebalancingParam; 0 stands for the default False
RebalancingParams == {0, 1}

\* datetime.min: earlier than every time of the clock
UTCMIN == 0

\* the value None of self.removedSymbols (no symbol is named "None")
None == <<"None">>

VARIABLES
    \* ---- portfolio construction model: the object's fields
    insightCollection,   \* self.insightCollection: a set of insight records
    removedSymbols,      \* self.removedSymbols: None or a list of symbols
    nextExpiryTime,      \* self.nextExpiryTime
    rebalancingTime,     \* self.rebalancingTime
    rebalancingParam,    \* the constructor's argument (days; 0 = False)
    \* ---- the host's state read by the model
    now,                 \* algorithm.UtcTime
    holdings,            \* algorithm.Portfolio[s]: 1 long, -1 short, 0 not invested
    \* ---- the last CreateTargets call, until the host consumes its result
    ret,                 \* "none" | "early" (line 66) | "full" (line 118)
    targets,             \* the returned list
    activeInsights,      \* the local activeInsights, in the order enumerated
    lastActiveInsights,  \* the local lastActiveInsights
    percents,            \* the dictionary of DetermineTargetPercent (by insight id)
    created,             \* whether ShouldCreateTargets returned True
    \* ---- history variables
    removedSince,        \* symbols reported removed since the previous CreateTargets
    removedAtCall,       \* removedSince as the last CreateTargets call found it
    rebalancingTimeAtCall, \* self.rebalancingTime as the last call found it
    \* ---- universe selection model
    periodCheck,         \* self.periodCheck
    Time,                \* algorithm.Time: [year, day]
    uret,                \* "none" | "coarse" | "fine": the call that returned last
    coarse,              \* the argument of the last SelectCoarse call
    coarseSelection,     \* its result: Unchanged or a list of symbols
    fine,                \* the argument of the last SelectFine call
    fineSelection,       \* its result: a list of symbols, or Raised
    lowestPERatioPercentile, \* the local of SelectFine, times 100
    \* ---- history variables
    calledYears,         \* the years in which SelectCoarse has been called
    firstCallOfYear,     \* whether the last SelectCoarse call was the first of its year
    periodCheckAtCall    \* self.periodCheck as the last SelectCoarse call found it

uvars == <<periodCheck, Time, uret, coarse, coarseSelection, fine, fineSelection,
           lowestPERatioPercentile, calledYears, firstCallOfYear, periodCheckAtCall>>

pvars == <<insightCollection, removedSymbols, nextExpiryTime, rebalancingTime,
           rebalancingParam, now, holdings, ret, targets, activeInsights,
           lastActiveInsights, percents, created, removedSince, removedAtCall,
           rebalancingTimeAtCall>>

vars == <<pvars, uvars>>

(***************************************************************************)
(* Sequences and sets.                                                     *)
(***************************************************************************)
Range(s) == {s[k] : k \in DOMAIN s}

\* all the orders in which a finite set can be enumerated
Orders(S) == {s \in [1..Cardinality(S) -> S] : Range(s) = S}

\* the lists a host can report as removed securities: distinct symbols
SymbolLists == UNION {Orders(T) : T \in SUBSET Symbols}

SetMin(S) == CHOOSE m \in S : \A x \in S : m <= x

(***************************************************************************)
(* Rational numbers <<numerator, denominator>>; a zero denominator is the  *)
(* outcome of a division by zero.                                          *)
(***************************************************************************)
Zero == <<0, 1>>

Divide(n, d) == IF d = 0 THEN <<0, 0>> ELSE IF n = 0 THEN Zero ELSE <<n, d>>

Times(k, q) == IF q[2] = 0 THEN <<0, 0>> ELSE Divide(k * q[1], q[2])

(***************************************************************************)
(* The host's Insight and InsightCollection.                               *)
(***************************************************************************)
IsExpired(i, t) == i.CloseTimeUtc < t

IsActive(i, t) == ~IsExpired(i, t)

HasActiveInsights(coll, symbol, t) ==
    \E i \in coll : i.Symbol = symbol /\ IsActive(i, t)

\* GetNextExpiryTime() is None for an empty collection, and then UTCMIN is taken
NextExpiryTime(coll) ==
    IF coll = {} THEN UTCMIN ELSE SetMin({i.CloseTimeUtc : i \in coll})

\* Clear(symbols): forget every insight of the symbols
Clear(coll, symbols) == {i \in coll : i.Symbol \notin symbols}

\* an insight generated at time t; insights are told apart by their content
Insight(symbol, direction, t, period) ==
    [Symbol |-> symbol, Direction |-> direction,
     GeneratedTimeUtc |-> t, CloseTimeUtc |-> t + period]

\* the batches of insights an alpha model can emit at time t: at most n, and
\* at most one insight per symbol
NewInsights(t, n) ==
    {b \in SUBSET {Insight(s, d, t, p) : s \in Symbols, d \in Directions, p \in Periods} :
        /\ Cardinality(b) <= n
        /\ \A i, j \in b : i.Symbol = j.Symbol => i = j}

(***************************************************************************)
(* PortfolioTarget(symbol, 0) and PortfolioTarget.Percent(_, symbol, pct). *)
(***************************************************************************)
PortfolioTarget(symbol, quantity) ==
    [Symbol |-> symbol, kind |-> "quantity", value |-> <<quantity, 1>>]

PercentTarget(symbol, pct) ==
    [Symbol |-> symbol, kind |-> "percent", value |-> pct]

(***************************************************************************)
(* itertools.groupby(xs, key = Symbol): the maximal runs of consecutive    *)
(* elements with the same symbol, as pairs <<first, last>> of positions.   *)
(***************************************************************************)
RunStarts(xs) ==
    {k \in DOMAIN xs : k = 1 \/ xs[k-1].Symbol # xs[k].Symbol}

RunEnd(xs, s) ==
    SetMin({e \in s..Len(xs) : e = Len(xs) \/ xs[e+1].Symbol # xs[e].Symbol})

\* the run starts in increasing order
RunStartSeq(xs) ==
    LET S == RunStarts(xs)
    IN [k \in 1..Cardinality(S) |->
           CHOOSE s \in S : Cardinality({u \in S : u <= s}) = k]

\* sorted(g, key = GeneratedTimeUtc)[-1]: the sort is stable, so among the
\* latest generated of the run it is the one enumerated last
LastGenerated(xs, s, e) ==
    LET latest == {k \in s..e :
                     \A j \in s..e : xs[j].GeneratedTimeUtc <= xs[k].GeneratedTimeUtc}
    IN xs[CHOOSE k \in latest : \A j \in latest : j <= k]

GroupLast(xs) ==
    LET starts == RunStartSeq(xs)
    IN [k \in DOMAIN starts |-> LastGenerated(xs, starts[k], RunEnd(xs, starts[k]))]

(***************************************************************************)
(* ShouldCreateTargets (lines 120-149).                                    *)
(***************************************************************************)
Rebalancing == rebalancingParam > 0

RebalancingFunc(dt) == dt + rebalancingParam

Invested(h, s) == h[s] # 0
IsLong(h, s) == h[s] > 0
IsShort(h, s) == h[s] < 0

TimeToRebalance == Rebalancing /\ now >= rebalancingTime

InsightTriggers(h, i) ==
    \/ ~Invested(h, i.Symbol) /\ i.Direction # Flat
    \/ IsLong(h, i.Symbol) /\ i.Direction # Up
    \/ IsShort(h, i.Symbol) /\ i.Direction # Down

ShouldCreateTargets(h, last) ==
    \/ TimeToRebalance
    \/ \E k \in DOMAIN last : InsightTriggers(h, last[k])

(***************************************************************************)
(* DetermineTargetPercent (lines 151-169).                                 *)
(***************************************************************************)
CountAll(last) == Len(last)

Count(last) == Cardinality({k \in DOMAIN last : last[k].Direction # Flat})

PercentUnguarded(count) == Divide(1, count)

Percent(count) == IF count = 0 THEN Zero ELSE Divide(1, count)

DetermineTargetPercent(last) ==
    LET percent == Percent(Count(last))
    IN [i \in Range(last) |-> Times(i.Direction, percent)]

(***************************************************************************)
(* CreateTargets (lines 49-118).                                           *)
(***************************************************************************)
\* line 65: nothing new, nothing expired, nothing removed
NothingToDo(insights) ==
    /\ insights = {}
    /\ now <= nextExpiryTime
    /\ removedSymbols = None

\* lines 72-75
UniverseDeselectionTargets ==
    IF removedSymbols # None
    THEN [k \in DOMAIN removedSymbols |-> PortfolioTarget(removedSymbols[k], 0)]
    ELSE <<>>

\* lines 91-96: a target per insight unless PortfolioTarget.Percent gives None
PercentTargets(last, pcts, failing) ==
    LET ok == SelectSeq(last, LAMBDA i : i.Symbol \notin failing)
    IN [k \in DOMAIN ok |-> PercentTarget(ok[k].Symbol, pcts[ok[k]])]

\* lines 105-109: a flatten target per run of expired insights of a symbol
\* that has no active insight left and raised no error
ExpiredTargets(expired, coll, errorSymbols) ==
    LET starts == RunStartSeq(expired)
        flat == SelectSeq(starts, LAMBDA s :
                    /\ ~HasActiveInsights(coll, expired[s].Symbol, now)
                    /\ expired[s].Symbol \notin errorSymbols)
    IN [k \in DOMAIN flat |-> PortfolioTarget(expired[flat[k]].Symbol, 0)]

CreateTargetsEarly(insights) ==
    /\ NothingToDo(insights)
    /\ ret' = "early"
    /\ targets' = <<>>
    /\ activeInsights' = <<>>
    /\ lastActiveInsights' = <<>>
    /\ percents' = <<>>
    /\ created' = FALSE
    /\ UNCHANGED <<insightCollection, removedSymbols, nextExpiryTime,
                   rebalancingTime>>

CreateTargetsFull(insights) ==
    /\ ~NothingToDo(insights)
    /\ LET added == insightCollection \cup insights
           active == {i \in added : IsActive(i, now)}
           expired == {i \in added : IsExpired(i, now)}
           kept == added \ expired
       IN \E order \in Orders(active), expiredOrder \in Orders(expired) :
          LET last == GroupLast(order)
              should == ShouldCreateTargets(holdings, last)
              pcts == DetermineTargetPercent(last)
          IN \E failing \in SUBSET (IF should
                                     THEN {last[k].Symbol : k \in DOMAIN last}
                                     ELSE {}) :
             /\ ret' = "full"
             /\ insightCollection' = kept
             /\ removedSymbols' = None
             /\ activeInsights' = order
             /\ lastActiveInsights' = last
             /\ created' = should
             /\ percents' = IF should THEN pcts ELSE <<>>
             /\ targets' = UniverseDeselectionTargets
                             \o (IF should THEN PercentTargets(last, pcts, failing)
                                           ELSE <<>>)
                             \o ExpiredTargets(expiredOrder, kept, failing)
             /\ rebalancingTime' = IF should /\ Rebalancing
                                   THEN RebalancingFunc(now)
                                   ELSE rebalancingTime
             /\ nextExpiryTime' = NextExpiryTime(kept)

CreateTargets ==
    /\ ret = "none"
    /\ \E insights \in NewInsights(now, MaxInsights - Cardinality(insightCollection)) :
          /\ Cardinality(insightCollection \cup insights) <= MaxInsights
          /\ \/ CreateTargetsEarly(insights)
             \/ CreateTargetsFull(insights)
    /\ removedAtCall' = removedSince
    /\ removedSince' = {}
    /\ rebalancingTimeAtCall' = rebalancingTime
    /\ UNCHANGED <<rebalancingParam, now, holdings>>
    /\ UNCHANGED uvars

(***************************************************************************)
(* OnSecuritiesChanged (lines 171-183).                                    *)
(***************************************************************************)
OnSecuritiesChanged ==
    /\ ret = "none"
    /\ \E removed \in SymbolLists :
          /\ removedSymbols' = removed
          /\ insightCollection' = Clear(insightCollection, Range(removed))
          /\ removedSince' = removedSince \cup Range(removed)
    /\ UNCHANGED <<nextExpiryTime, rebalancingTime, rebalancingParam, now, holdings,
                   ret, targets, activeInsights, lastActiveInsights, percents,
                   created, removedAtCall, rebalancingTimeAtCall>>
    /\ UNCHANGED uvars

(***************************************************************************)
(* The host: it takes the returned targets, advances the clock and fills   *)
(* orders.                                                                 *)
(***************************************************************************)
\* the sign of a rational
Sign(q) == IF q[1] > 0 THEN 1 ELSE IF q[1] < 0 THEN -1 ELSE 0

\* the holdings the execution model can leave after working on a list of targets:
\* per symbol, the order for its last target is filled or it is not
Fills(h, ts) ==
    {g \in [Symbols -> Directions] :
        \A s \in Symbols :
           \/ g[s] = h[s]
           \/ \E k \in DOMAIN ts :
                 /\ ts[k].Symbol = s
                 /\ \A j \in DOMAIN ts : ts[j].Symbol = s => j <= k
                 /\ g[s] = Sign(ts[k].value)}

TakeTargets ==
    /\ ret # "none"
    /\ ret' = "none"
    /\ targets' = <<>>
    /\ activeInsights' = <<>>
    /\ lastActiveInsights' = <<>>
    /\ percents' = <<>>
    /\ created' = FALSE
    /\ removedAtCall' = {}
    /\ rebalancingTimeAtCall' = UTCMIN
    /\ holdings' \in Fills(holdings, targets)
    /\ UNCHANGED <<insightCollection, removedSymbols, nextExpiryTime,
                   rebalancingTime, rebalancingParam, now, removedSince>>
    /\ UNCHANGED uvars

AdvanceTime ==
    /\ ret = "none"
    /\ now < MaxTime
    /\ now' = now + 1
    /\ UNCHANGED <<insightCollection, removedSymbols, nextExpiryTime,
                   rebalancingTime, rebalancingParam, holdings, ret, targets,
                   activeInsights, lastActiveInsights, percents, created,
                   removedSince, removedAtCall, rebalancingTimeAtCall>>
    /\ UNCHANGED uvars


(***************************************************************************)
(* SmallCapsLowPERatioUniverseSelectionModel.                              *)
(***************************************************************************)
\* SetStartDate(2015, 1, 1)
StartYear == 2015
\* the clock of the universe model runs over MaxYears years of MaxDays days
MaxYears == 2
MaxDays == 2
\* the longest coarse and fine lists handed in
MaxCoarse == 3
MaxFine == 3

\* self.periodCheck = -1
NoPeriod == -1
\* x.Price > 5
MinPrice == 5
\* 3e8 < x.MarketCap < 2e9, in units of 1e8
LowCap == 3
HighCap == 20
\* np.percentile(peRatios, 1)
Q == 1

\* the k-th security of a list handed in by the host
Tickers == <<"AAA", "BBB", "CCC", "DDD", "EEE">>

Prices == {4, 5, 6}
MarketCaps == {2, 3, 10, 20}
PERatios == {0, 1, 2}

\* Universe.Unchanged
Unchanged == <<"Universe.Unchanged">>
\* no list is returned: the call raised
Raised == <<"raised">>
\* numpy's nan
NaN == <<"nan">>

CoarseLists ==
    UNION {{[k \in 1..n |-> [Symbol |-> Tickers[k],
                              HasFundamentalData |-> c[k][1],
                              Price |-> c[k][2]]] :
              c \in [1..n -> BOOLEAN \X Prices]} : n \in 0..MaxCoarse}

FineLists ==
    UNION {{[k \in 1..n |-> [Symbol |-> Tickers[k],
                              MarketCap |-> c[k][1],
                              PERatio |-> c[k][2]]] :
              c \in [1..n -> MarketCaps \X PERatios]} : n \in 0..MaxFine}

SymbolsOf(xs) == [k \in DOMAIN xs |-> xs[k].Symbol]

(***************************************************************************)
(* SelectCoarse (lines 32-49).                                             *)
(***************************************************************************)
PeriodOfDay(t) == t.day

\* algorithm.Time.year
PeriodOf(t) == t.year

HasPriceAtLeast(x) == x.HasFundamentalData /\ x.Price >= MinPrice

\* line 43
PassesCoarse(x) == x.HasFundamentalData /\ x.Price > MinPrice

FilterCoarse(xs) == SelectSeq(xs, PassesCoarse)

SelectCoarseUnchanged(xs) ==
    /\ PeriodOf(Time) = periodCheck
    /\ coarseSelection' = Unchanged
    /\ UNCHANGED periodCheck

SelectCoarseRun(xs) ==
    /\ PeriodOf(Time) # periodCheck
    /\ periodCheck' = PeriodOf(Time)
    /\ coarseSelection' = SymbolsOf(FilterCoarse(xs))

SelectCoarse ==
    /\ uret = "none"
    /\ \E xs \in CoarseLists :
          /\ coarse' = xs
          /\ \/ SelectCoarseUnchanged(xs)
             \/ SelectCoarseRun(xs)
    /\ uret' = "coarse"
    /\ calledYears' = calledYears \cup {Time.year}
    /\ firstCallOfYear' = (Time.year \notin calledYears)
    /\ periodCheckAtCall' = periodCheck
    /\ UNCHANGED <<Time, fine, fineSelection, lowestPERatioPercentile>>
    /\ UNCHANGED pvars

(***************************************************************************)
(* SelectFine (lines 51-74).                                               *)
(***************************************************************************)
IsSmallCapOrEqual(x) ==
    LowCap <= x.MarketCap /\ x.MarketCap <= HighCap /\ x.PERatio > 0

\* line 56
IsSmallCap(x) == LowCap < x.MarketCap /\ x.MarketCap < HighCap /\ x.PERatio > 0

FilterFine(xs) == SelectSeq(xs, IsSmallCap)

\* np.percentile(values, q), times 100, for a non-empty list: the linear
\* interpolation between the two order statistics around (n - 1) * q / 100
Percentile100(values, q) ==
    LET n == Len(values)
        sorted == SortSeq(values, LAMBDA a, b : a < b)
        lo == ((n - 1) * q) \div 100
        rem == ((n - 1) * q) % 100
        hi == IF lo + 1 < n THEN lo + 1 ELSE lo
    IN 100 * sorted[lo + 1] + rem * (sorted[hi + 1] - sorted[lo + 1])

\* line 64: x.ValuationRatios.PERatio <= lowestPERatioPercentile
InLowestPercentile(x, p100) == 100 * x.PERatio <= p100

LowestPERatio(xs, p100) == SelectSeq(xs, LAMBDA x : InLowestPercentile(x, p100))

\* some small caps: the percentile is a number
SelectFineSome(xs) ==
    LET filterFine == FilterFine(xs)
        peRatios == [k \in DOMAIN filterFine |-> filterFine[k].PERatio]
        p100 == Percentile100(peRatios, Q)
    IN /\ Len(filterFine) > 0
       /\ lowestPERatioPercentile' = p100
       /\ fineSelection' = SymbolsOf(LowestPERatio(filterFine, p100))

\* no small cap: np.percentile of an empty list gives nan, and no comparison
\* with nan holds
SelectFineNan(xs) ==
    /\ Len(FilterFine(xs)) = 0
    /\ lowestPERatioPercentile' = NaN
    /\ fineSelection' = <<>>

\* no small cap: np.percentile of an empty list raises (numpy 1.22 and later)
SelectFineRaises(xs) ==
    /\ Len(FilterFine(xs)) = 0
    /\ lowestPERatioPercentile' = NaN
    /\ fineSelection' = Raised

SelectFine ==
    /\ uret = "none"
    /\ \E xs \in FineLists :
          /\ fine' = xs
          /\ \/ SelectFineSome(xs)
             \/ SelectFineNan(xs)
             \/ SelectFineRaises(xs)
    /\ uret' = "fine"
    /\ UNCHANGED <<periodCheck, Time, coarse, coarseSelection, calledYears,
                   firstCallOfYear, periodCheckAtCall>>
    /\ UNCHANGED pvars

(***************************************************************************)
(* The host of the universe model: it takes the selection and advances the *)
(* clock.                                                                  *)
(***************************************************************************)
TakeSelection ==
    /\ uret # "none"
    /\ uret' = "none"
    /\ coarse' = <<>>
    /\ coarseSelection' = <<>>
    /\ fine' = <<>>
    /\ fineSelection' = <<>>
    /\ lowestPERatioPercentile' = NaN
    /\ firstCallOfYear' = FALSE
    /\ periodCheckAtCall' = NoPeriod
    /\ UNCHANGED <<periodCheck, Time, calledYears>>
    /\ UNCHANGED pvars

NextDay ==
    /\ uret = "none"
    /\ Time.day < MaxDays
    /\ Time' = [Time EXCEPT !.day = Time.day + 1]
    /\ UNCHANGED <<periodCheck, uret, coarse, coarseSelection, fine, fineSelection,
                   lowestPERatioPercentile, calledYears, firstCallOfYear,
                   periodCheckAtCall>>
    /\ UNCHANGED pvars

NextYear ==
    /\ uret = "none"
    /\ Time.year < StartYear + MaxYears - 1
    /\ Time' = [year |-> Time.year + 1, day |-> 1]
    /\ UNCHANGED <<periodCheck, uret, coarse, coarseSelection, fine, fineSelection,
                   lowestPERatioPercentile, calledYears, firstCallOfYear,
                   periodCheckAtCall>>
    /\ UNCHANGED pvars

(***************************************************************************)
(* The initial states.                                                     *)
(***************************************************************************)
\* SmallCapsLowPERatioUniverseSelectionModel.__init__ (lines 23-30), at the
\* start date
UniverseInit ==
    /\ periodCheck = NoPeriod
    /\ Time = [year |-> StartYear, day |-> 1]
    /\ uret = "none"
    /\ coarse = <<>>
    /\ coarseSelection = <<>>
    /\ fine = <<>>
    /\ fineSelection = <<>>
    /\ lowestPERatioPercentile = NaN
    /\ calledYears = {}
    /\ firstCallOfYear = FALSE
    /\ periodCheckAtCall = NoPeriod

\* CustomEqualWeightingPortfolioConstructionModel.__init__ (lines 25-47), at
\* the start of the algorithm
PortfolioInit ==
    /\ insightCollection = {}
    /\ removedSymbols = <<>>
    /\ nextExpiryTime = UTCMIN
    /\ rebalancingTime = UTCMIN
    /\ rebalancingParam \in RebalancingParams
    /\ now = 1
    /\ holdings = [s \in Symbols |-> 0]
    /\ ret = "none"
    /\ targets = <<>>
    /\ activeInsights = <<>>
    /\ lastActiveInsights = <<>>
    /\ percents = <<>>
    /\ created = FALSE
    /\ removedSince = {}
    /\ removedAtCall = {}
    /\ rebalancingTimeAtCall = UTCMIN

(***************************************************************************)
(* The portfolio construction model under every sequence of calls.         *)
(***************************************************************************)
Init == PortfolioInit /\ UniverseInit

Next ==
    \/ CreateTargets
    \/ OnSecuritiesChanged
    \/ TakeTargets
    \/ AdvanceTime

Spec == Init /\ [][Next]_vars

(***************************************************************************)
(* The universe selection model under every sequence of calls.             *)
(***************************************************************************)
InitUniverse == UniverseInit /\ PortfolioInit /\ rebalancingParam = 0

NextUniverse ==
    \/ SelectCoarse
    \/ SelectFine
    \/ TakeSelection
    \/ NextDay
    \/ NextYear

SpecUniverse == InitUniverse /\ [][NextUniverse]_vars

(***************************************************************************)
(* Lines 78-84 of CreateTargets on every enumeration of active insights:   *)
(* the host's GetActiveInsights promises no order.                         *)
(***************************************************************************)
\* the longest enumeration of active insights
MaxActive == 3

\* the times at which the active insights were generated
GeneratedTimes == {1, 2}

\* insights still active at time t
ActiveAt(t) ==
    {Insight(s, d, g, t - g) : s \in Symbols, d \in Directions, g \in GeneratedTimes}

\* the lists of at most n distinct elements of S
ListsOf(S, n) ==
    UNION {{xs \in [1..m -> S] : \A j, k \in 1..m : xs[j] = xs[k] => j = k} :
             m \in 0..n}

GroupActiveInsights ==
    /\ ret = "none"
    /\ ret' = "grouped"
    /\ lastActiveInsights' = GroupLast(activeInsights)
    /\ UNCHANGED <<insightCollection, removedSymbols, nextExpiryTime,
                   rebalancingTime, rebalancingParam, now, holdings, targets,
                   activeInsights, percents, created, removedSince, removedAtCall,
                   rebalancingTimeAtCall>>
    /\ UNCHANGED uvars

InitLastActive ==
    /\ UniverseInit
    /\ insightCollection = {}
    /\ removedSymbols = <<>>
    /\ nextExpiryTime = UTCMIN
    /\ rebalancingTime = UTCMIN
    /\ rebalancingParam = 0
    /\ now = 2
    /\ holdings = [s \in Symbols |-> 0]
    /\ ret = "none"
    /\ targets = <<>>
    /\ activeInsights \in ListsOf(ActiveAt(2), MaxActive)
    /\ lastActiveInsights = <<>>
    /\ percents = <<>>
    /\ created = FALSE
    /\ removedSince = {}
    /\ removedAtCall = {}
    /\ rebalancingTimeAtCall = UTCMIN

SpecLastActive == InitLastActive /\ [][GroupActiveInsights]_vars

(***************************************************************************)
(* Lines 86-100 of CreateTargets on every list of last active insights.    *)
(***************************************************************************)
\* the longest list of last active insights
MaxLast == 3

\* insights generated at time t that close at t
GeneratedAt(t) == {Insight(s, d, t, 0) : s \in Symbols, d \in Directions}

\* lines 88-100 when ShouldCreateTargets gives True
PercentTargetsCreated ==
    /\ ShouldCreateTargets(holdings, lastActiveInsights)
    /\ created' = TRUE
    /\ percents' = DetermineTargetPercent(lastActiveInsights)
    /\ targets' = PercentTargets(lastActiveInsights,
                                 DetermineTargetPercent(lastActiveInsights), {})
    /\ rebalancingTime' = IF Rebalancing THEN RebalancingFunc(now)
                                         ELSE rebalancingTime

\* line 88 when ShouldCreateTargets gives False
PercentTargetsNotCreated ==
    /\ ~ShouldCreateTargets(holdings, lastActiveInsights)
    /\ created' = FALSE
    /\ percents' = <<>>
    /\ targets' = <<>>
    /\ UNCHANGED rebalancingTime

CreatePercentTargets ==
    /\ ret = "none"
    /\ ret' = "percents"
    /\ \/ PercentTargetsCreated
       \/ PercentTargetsNotCreated
    /\ UNCHANGED <<insightCollection, removedSymbols, nextExpiryTime,
                   rebalancingParam, now, holdings, activeInsights,
                   lastActiveInsights, removedSince, removedAtCall,
                   rebalancingTimeAtCall>>
    /\ UNCHANGED uvars

InitTargetPercent ==
    /\ UniverseInit
    /\ insightCollection = {}
    /\ removedSymbols = <<>>
    /\ nextExpiryTime = UTCMIN
    /\ rebalancingTime = UTCMIN
    /\ rebalancingParam \in RebalancingParams
    /\ now = 1
    /\ holdings \in [Symbols -> Directions]
    /\ ret = "none"
    /\ targets = <<>>
    /\ activeInsights = <<>>
    /\ lastActiveInsights \in ListsOf(GeneratedAt(1), MaxLast)
    /\ percents = <<>>
    /\ created = FALSE
    /\ removedSince = {}
    /\ removedAtCall = {}
    /\ rebalancingTimeAtCall = UTCMIN

SpecTargetPercent == InitTargetPercent /\ [][CreatePercentTargets]_vars

(***************************************************************************)
(* The properties.                                                         *)
(***************************************************************************)
\* the positions of the Up and Down insights of a list
NonFlat(last) == {k \in DOMAIN last : last[k].Direction \in {Up, Down}}

\* C1: whenever percent targets are created from last active insights of
\* which N >= 1 are Up or Down, every Up insight is assigned +1/N and every
\* Down insight -1/N, N counting the insights that are not Flat.
C1_EqualWeighting ==
    created =>
        LET N == Cardinality(NonFlat(lastActiveInsights))
        IN N >= 1 =>
             \A k \in DOMAIN lastActiveInsights :
                LET i == lastActiveInsights[k]
                IN /\ i.Direction = Up => percents[i] = <<1, N>>
                   /\ i.Direction = Down => percents[i] = <<-1, N>>

\* percent targets were created from an Up, a Down and a Flat insight
C1_Witness ==
    /\ created
    /\ Cardinality(NonFlat(lastActiveInsights)) = 2
    /\ \E j, k, l \in DOMAIN lastActiveInsights :
          /\ lastActiveInsights[j].Direction = Up
          /\ lastActiveInsights[k].Direction = Down
          /\ lastActiveInsights[l].Direction = Flat
          /\ percents[lastActiveInsights[j]] = <<1, 2>>

\* the zero target of a symbol
ZeroTargeted(symbol) == PortfolioTarget(symbol, 0) \in Range(targets)

\* C2: every symbol reported removed by an OnSecuritiesChanged call since
\* the previous CreateTargets call is in the result of the next CreateTargets
\* call as PortfolioTarget(symbol, 0).
C2_RemovedYieldZeroTarget ==
    ret \in {"early", "full"} => \A s \in removedAtCall : ZeroTargeted(s)

\* the small caps of the list handed to SelectFine: market cap strictly
\* between 3e8 and 2e9 and a positive P/E
SmallCaps ==
    {k \in DOMAIN fine :
        /\ fine[k].MarketCap > LowCap
        /\ fine[k].MarketCap < HighCap
        /\ fine[k].PERatio > 0}

\* the j-th smallest P/E ratio of the small caps
SmallCapPE(j) ==
    CHOOSE v \in {fine[k].PERatio : k \in SmallCaps} :
        /\ Cardinality({k \in SmallCaps : fine[k].PERatio < v}) < j
        /\ j <= Cardinality({k \in SmallCaps : fine[k].PERatio <= v})

\* the 1st percentile of the small caps' P/E ratios, times 100: at the
\* fractional rank (n - 1) / 100 between the order statistics around it
FirstPercentile100 ==
    LET n == Cardinality(SmallCaps)
        lo == (n - 1) \div 100
        rem == (n - 1) % 100
        up == IF lo + 2 <= n THEN lo + 2 ELSE lo + 1
    IN 100 * SmallCapPE(lo + 1) + rem * (SmallCapPE(up) - SmallCapPE(lo + 1))

\* C3: the selection SelectFine returns is drawn from the small caps, has no
\* more entries than there are small caps, and every entry's P/E is at most
\* the 1st percentile of the small caps' P/E ratios.
C3_FineSelectionWithinSmallCaps ==
    (uret = "fine" /\ fineSelection # Raised) =>
        /\ Len(fineSelection) <= Cardinality(SmallCaps)
        /\ \A j \in DOMAIN fineSelection :
              \E k \in SmallCaps :
                 /\ fine[k].Symbol = fineSelection[j]
                 /\ 100 * fine[k].PERatio <= FirstPercentile100

\* a selection of one out of two small caps, with a third security at the
\* edge of the market cap range
C3_Witness ==
    /\ uret = "fine"
    /\ Len(fine) = 3
    /\ Cardinality(SmallCaps) = 2
    /\ \E k \in DOMAIN fine : fine[k].MarketCap = LowCap /\ fine[k].PERatio > 0
    /\ Len(fineSelection) = 1

\* C4: of the SelectCoarse calls made in a calendar year only the first
\* returns a list and sets periodCheck to that year; every other call returns
\* Universe.Unchanged and leaves periodCheck as it was.
C4_OncePerYear ==
    uret = "coarse" =>
        IF firstCallOfYear
        THEN coarseSelection # Unchanged /\ periodCheck = Time.year
        ELSE coarseSelection = Unchanged /\ periodCheck = periodCheckAtCall

\* a second call in the second year, on a later day
C4_Witness ==
    /\ uret = "coarse"
    /\ ~firstCallOfYear
    /\ Time.year > StartYear
    /\ Time.day > 1
    /\ coarseSelection = Unchanged
    /\ Len(coarse) > 0

\* the active insights at the time of the call
ActiveAtCall ==
    IF ret = "early"
    THEN {i \in insightCollection : IsActive(i, now)}
    ELSE Range(activeInsights)

\* the active insights generated after every other active insight of their
\* symbol: the last of their symbol in whatever order they are enumerated
LatestAtCall ==
    {i \in ActiveAtCall :
        \A j \in ActiveAtCall :
           (j.Symbol = i.Symbol /\ j # i) => j.GeneratedTimeUtc < i.GeneratedTimeUtc}

\* C5: with rebalancing disabled, a CreateTargets call creates percent
\* targets for all last active insights whenever (a) an active insight that
\* is not Flat is for a symbol that is not invested, (b) a symbol was removed
\* from the universe since the last call, or (c) an active insight's
\* direction differs from the direction of the holding of its symbol.
\* Stated of the calls that get past line 65 and, in (a) and (c), of the
\* insights that are the last of their symbol.
C5_RebalancedOnChange ==
    (/\ ret = "full"
     /\ rebalancingParam = 0
     /\ \/ \E i \in LatestAtCall : i.Direction # Flat /\ holdings[i.Symbol] = 0
        \/ removedAtCall # {}
        \/ \E i \in LatestAtCall : i.Direction # holdings[i.Symbol])
    => \A k \in DOMAIN lastActiveInsights :
          created /\ lastActiveInsights[k] \in DOMAIN percents

\* C6: with rebalancingParam = k > 0, a CreateTargets call at a time
\* t >= rebalancingTime while active insights exist creates percent targets
\* and sets rebalancingTime to t + k; and a call changes rebalancingTime only
\* if it created targets.
C6_TimeToRebalance ==
    ret \in {"early", "full"} =>
        /\ (/\ rebalancingParam > 0
            /\ now >= rebalancingTimeAtCall
            /\ ActiveAtCall # {})
           => (created /\ rebalancingTime = now + rebalancingParam)
        /\ rebalancingTime # rebalancingTimeAtCall => created

\* C7: whenever percent targets are created, every Flat insight is assigned
\* 0 and is not counted in N; no percent is the outcome of a division by
\* zero, and when all the insights are Flat every percent is 0.
C7_FlatClosed ==
    created =>
        LET N == Cardinality(NonFlat(lastActiveInsights))
        IN \A k \in DOMAIN lastActiveInsights :
              LET i == lastActiveInsights[k]
              IN /\ percents[i][2] # 0
                 /\ i.Direction = Flat => percents[i] = Zero
                 /\ i.Direction # Flat => percents[i][2] = N

\* percent targets were created from Flat insights alone
C7_Witness ==
    /\ created
    /\ Len(lastActiveInsights) >= 2
    /\ NonFlat(lastActiveInsights) = {}
    /\ \A k \in DOMAIN lastActiveInsights : percents[lastActiveInsights[k]] = Zero

\* the entries of the coarse list with fundamental data and a price above 5
Priced == {k \in DOMAIN coarse :
             coarse[k].HasFundamentalData /\ coarse[k].Price > MinPrice}

\* C8: a SelectCoarse call that runs the selection returns exactly the
\* symbols of the entries with fundamental data and a price strictly above
\* 5, in the order of the input.
C8_CoarseSelection ==
    (uret = "coarse" /\ coarseSelection # Unchanged) =>
        /\ Len(coarseSelection) = Cardinality(Priced)
        /\ \A k \in Priced :
              coarseSelection[Cardinality({j \in Priced : j <= k})] = coarse[k].Symbol

\* a selection of two that leaves out an entry priced at 5
C8_Witness ==
    /\ uret = "coarse"
    /\ coarseSelection # Unchanged
    /\ Len(coarseSelection) = 2
    /\ Len(coarse) = 3
    /\ \E k \in DOMAIN coarse :
          coarse[k].HasFundamentalData /\ coarse[k].Price = MinPrice

\* C9: lastActiveInsights holds exactly one insight per symbol that has an
\* active insight, the one generated last among that symbol's active
\* insights, whatever the order in which the active insights are enumerated.
C9_OneLastInsightPerSymbol ==
    ret = "grouped" =>
        \A s \in Symbols :
           LET of == {i \in Range(activeInsights) : i.Symbol = s}
               at == {k \in DOMAIN lastActiveInsights :
                        lastActiveInsights[k].Symbol = s}
           IN IF of = {}
              THEN at = {}
              ELSE /\ Cardinality(at) = 1
                   /\ \A k \in at, i \in of :
                         /\ lastActiveInsights[k] \in of
                         /\ i.GeneratedTimeUtc
                               <= lastActiveInsights[k].GeneratedTimeUtc

=============================================================================
